---- MODULE Spec2Model ----
(***************************************************************************)
(* Model of the batch image converter: the App component's state (file     *)
(* list, selection, processing flag, settings), its handlers (intake,      *)
(* select, remove, clear, startProcessing, reset, downloads) and the       *)
(* helpers of the image service they call.                                 *)
(*                                                                         *)
(* Text is modelled as a sequence of one-character strings, so that the    *)
(* string operations of the code (split, slice, join, trim, template       *)
(* concatenation, number formatting) are computed, not assumed.            *)
(***************************************************************************)
EXTENDS Integers, Sequences, FiniteSets, TLC

\* ------------------------------------------------------------------ bounds
\* Longest file list the intake may build.
MaxFiles == 2
\* Number of files taken in over a whole run (ids, preview URLs are fresh).
MaxIds == 3

\* ------------------------------------------------------------------- types
\* enum OutputFormat
JPEG == "image/jpeg"
PNG == "image/png"
WEBP == "image/webp"
OutputFormat == {JPEG, PNG, WEBP}

\* enum ProcessStatus
IDLE == "IDLE"
PROCESSING == "PROCESSING"
COMPLETED == "COMPLETED"
ERROR == "ERROR"
ProcessStatus == {IDLE, PROCESSING, COMPLETED, ERROR}

\* An optional field (outputBlob?, newName?, error?) is <<>> when undefined
\* and <<v>> when it holds v.
Undefined == <<>>
Some(v) == <<v>>
IsDefined(opt) == opt # <<>>
ValueOf(opt) == opt[1]

\* ----------------------------------------------------------------- strings
Whitespace == {" "}

\* String.prototype.trim
RECURSIVE TrimStart(_)
TrimStart(s) ==
  IF s # <<>> /\ Head(s) \in Whitespace THEN TrimStart(Tail(s)) ELSE s

RECURSIVE TrimEnd(_)
TrimEnd(s) ==
  IF s # <<>> /\ s[Len(s)] \in Whitespace
    THEN TrimEnd(SubSeq(s, 1, Len(s) - 1))
    ELSE s

Trim(s) == TrimEnd(TrimStart(s))

\* String.prototype.split(sep) for a one-character separator: the pieces
\* between the separators, always at least one piece.
RECURSIVE SplitFrom(_, _, _)
SplitFrom(s, sep, piece) ==
  IF s = <<>> THEN <<piece>>
  ELSE IF Head(s) = sep THEN <<piece>> \o SplitFrom(Tail(s), sep, <<>>)
  ELSE SplitFrom(Tail(s), sep, Append(piece, Head(s)))

Split(s, sep) == SplitFrom(s, sep, <<>>)

\* Array.prototype.slice(0, -1): all but the last element.
SliceButLast(a) == SubSeq(a, 1, Len(a) - 1)

\* Array.prototype.join(sep)
RECURSIVE Join(_, _)
Join(a, sep) ==
  IF a = <<>> THEN <<>>
  ELSE IF Len(a) = 1 THEN a[1]
  ELSE a[1] \o <<sep>> \o Join(Tail(a), sep)

\* Number to decimal text, as a template literal formats it.
DigitChars == <<"0", "1", "2", "3", "4", "5", "6", "7", "8", "9">>

RECURSIVE NumberToString(_)
NumberToString(n) ==
  IF n < 10 THEN <<DigitChars[n + 1]>>
  ELSE NumberToString(n \div 10) \o <<DigitChars[(n % 10) + 1]>>

\* ----------------------------------------------------------- image service
\* getExtensionFromMime
getExtensionFromMime(mime) ==
  CASE mime = JPEG -> <<"j", "p", "g">>
    [] mime = PNG -> <<"p", "n", "g">>
    [] mime = WEBP -> <<"w", "e", "b", "p">>
    [] OTHER -> <<"j", "p", "g">>

\* The ways convertImage settles: it resolves with a blob, or rejects.
\* "read" is the FileReader's onerror (rejects with an event, no Error);
\* the other three reject with an Error carrying the message.
ConvertOk == "ok"
ReadFailed == "read"
LoadFailed == "Failed to load image"
NoContext == "Could not get canvas context"
EncodeFailed == "Conversion failed"
ConvertRejections == {ReadFailed, LoadFailed, NoContext, EncodeFailed}
ConvertOutcomes == {ConvertOk} \cup ConvertRejections

\* The blob convertImage resolves with: the file's picture encoded in the
\* format of the settings object the call was given.
convertImage(file, s) == [type |-> s.format, data |-> file.data]

\* t.statusFailed, the message used when the rejection is not an Error.
StatusFailed == "statusFailed"

\* error instanceof Error ? error.message : t.statusFailed
ErrorMessage(outcome) == IF outcome = ReadFailed THEN StatusFailed ELSE outcome

\* ------------------------------------------------------------------ inputs
\* Names of the files a user hands over: one without an extension, one
\* with an extension, one with two dots.
FileNames ==
  { <<"a">>,
    <<"a", ".", "p", "n", "g">>,
    <<"a", ".", "b", ".", "j", "p", "g">> }

\* Texts typed into the base filename field.
BaseFilenames == { <<>>, <<" ">>, <<" ", "x", " ">> }

\* ------------------------------------------------------------------- state
VARIABLES
  files,          \* useState<ProcessedFile[]>
  selectedIds,    \* useState<Set<string>>
  isProcessing,   \* useState(false)
  settings,       \* useState<ConversionSettings> (the fields the handlers read)
  nextId,         \* source of fresh ids, preview URLs and file contents
  revoked,        \* preview URLs given to URL.revokeObjectURL
  passFiles,      \* startProcessing's newFiles, held by the running pass
  passSettings,   \* the settings object the running pass closed over
  inflight,       \* indices of passFiles whose conversion has not settled
  outcome,        \* the settled conversions of the latest pass: file id, result,
                  \* and whether the file was in the list then
  retried,        \* ids of the files the latest pass found in status ERROR
  userActs,       \* the handlers that changed the list while the latest pass ran
  saved,          \* what the latest step handed to FileSaver.saveAs
  img,            \* convertImage's decoded Image: its width and height
  resize,         \* the resize fields of the settings convertImage was given
  canvas          \* the canvas convertImage sized: targetWidth, targetHeight

vars ==
  << files, selectedIds, isProcessing, settings, nextId, revoked, passFiles,
     passSettings, inflight, outcome, retried, userActs, saved, img, resize,
     canvas >>

\* The state of one convertImage call's resize computation.
dimVars == << img, resize, canvas >>

\* ------------------------------------------------------------ list helpers
Ids(fs) == { fs[i].id : i \in DOMAIN fs }

RECURSIVE Filter(_, _)
\* Array.prototype.filter with the predicate given as the set of kept ids.
Filter(fs, keep) ==
  IF fs = <<>> THEN <<>>
  ELSE IF Head(fs).id \in keep THEN <<Head(fs)>> \o Filter(Tail(fs), keep)
  ELSE Filter(Tail(fs), keep)

Range(f) == { f[x] : x \in DOMAIN f }

\* The settings object a closure holds when no pass is running: none.
InitialSettings ==
  [format |-> JPEG, baseFilename |-> <<>>, useSequentialNumbering |-> FALSE]

\* The record of a step's downloads: the ids of the files the download
\* handler was given, the files saved one by one (name and blob, in order)
\* and the archives saved (each a set of entries, name and blob).
NoSave == [targets |-> {}, files |-> <<>>, zips |-> <<>>]

Init ==
  /\ files = <<>>
  /\ selectedIds = {}
  /\ isProcessing = FALSE
  /\ settings = InitialSettings
  /\ nextId = 1
  /\ revoked = {}
  /\ passFiles = <<>>
  /\ passSettings = InitialSettings
  /\ inflight = {}
  /\ outcome = {}
  /\ retried = {}
  /\ userActs = {}
  /\ saved = NoSave
  /\ img = Undefined
  /\ resize = Undefined
  /\ canvas = Undefined

\* ------------------------------------------------------------------ intake
\* handleFilesSelected's map: one ProcessedFile per File, with a fresh id
\* and a fresh preview URL, in status IDLE and with no output fields.
NewProcessedFiles(names, first) ==
  [k \in 1..Len(names) |->
     [id |-> first + k - 1,
      originalFile |-> [name |-> names[k], data |-> first + k - 1],
      previewUrl |-> first + k - 1,
      status |-> IDLE,
      outputBlob |-> Undefined,
      newName |-> Undefined,
      error |-> Undefined]]

\* The batches of files, named from names, one intake may hand over.
Batches(names) == UNION { [1..n -> names] : n \in 1..MaxFiles }

\* The record of the user's changes to the list during a pass.
UserActed(handler) == IF isProcessing THEN userActs \cup {handler} ELSE userActs

\* handleFilesSelected, reached from the dropzone (shown while the list is
\* empty) or from the add-more button (disabled while a pass runs).
handleFilesSelected(names) ==
  /\ files = <<>> \/ ~isProcessing
  /\ Len(files) + Len(names) <= MaxFiles
  /\ nextId + Len(names) - 1 <= MaxIds
  /\ files' = files \o NewProcessedFiles(names, nextId)
  /\ nextId' = nextId + Len(names)
  /\ userActs' = UserActed("intake")
  /\ saved' = NoSave
  /\ UNCHANGED << selectedIds, isProcessing, settings, revoked, passFiles,
                  passSettings, inflight, outcome, retried >>
  /\ UNCHANGED dimVars

\* --------------------------------------------------------------- selection
handleToggleSelect(id) ==
  /\ id \in Ids(files)
  /\ selectedIds' = IF id \in selectedIds THEN selectedIds \ {id}
                    ELSE selectedIds \cup {id}
  /\ saved' = NoSave
  /\ UNCHANGED << files, isProcessing, settings, nextId, revoked, passFiles,
                  passSettings, inflight, outcome, retried, userActs >>
  /\ UNCHANGED dimVars

handleSelectAll ==
  /\ files # <<>>
  /\ selectedIds' = IF Cardinality(selectedIds) = Len(files) THEN {}
                    ELSE Ids(files)
  /\ saved' = NoSave
  /\ UNCHANGED << files, isProcessing, settings, nextId, revoked, passFiles,
                  passSettings, inflight, outcome, retried, userActs >>
  /\ UNCHANGED dimVars

\* ------------------------------------------------------------ remove, clear
\* prev.filter(f => f.id !== id)
WithoutId(prev, id) == Filter(prev, Ids(prev) \ {id})

\* Mutant of RemovedUrls: the removal does not revoke the preview URL.
RemovedUrlsNone(prev, id) == {}

\* The preview URLs handleRemoveFile revokes: that of prev.find(f => f.id === id).
RemovedUrls(prev, id) == { prev[i].previewUrl : i \in { j \in DOMAIN prev : prev[j].id = id } }

handleRemoveFile(id) ==
  /\ id \in Ids(files)
  /\ files' = WithoutId(files, id)
  /\ revoked' = revoked \cup RemovedUrls(files, id)
  /\ selectedIds' = selectedIds \ {id}
  /\ userActs' = UserActed("remove")
  /\ saved' = NoSave
  /\ UNCHANGED << isProcessing, settings, nextId, passFiles, passSettings,
                  inflight, outcome, retried >>
  /\ UNCHANGED dimVars

\* The preview URLs handleClearAll revokes: files.forEach(f => revoke(f.previewUrl)).
ClearedUrls(fs) == { fs[i].previewUrl : i \in DOMAIN fs }

\* handleClearAll; its button is in the toolbar of a non-empty list and is
\* disabled while a pass runs.
handleClearAll ==
  /\ files # <<>>
  /\ ~isProcessing
  /\ revoked' = revoked \cup ClearedUrls(files)
  /\ files' = <<>>
  /\ selectedIds' = {}
  /\ userActs' = UserActed("clear")
  /\ saved' = NoSave
  /\ UNCHANGED << isProcessing, settings, nextId, passFiles, passSettings,
                  inflight, outcome, retried >>
  /\ UNCHANGED dimVars

\* ---------------------------------------------------------------- settings
Settings ==
  [format : OutputFormat, baseFilename : BaseFilenames,
   useSequentialNumbering : BOOLEAN]

\* The settings controls' onChange handlers: each replaces one field; every
\* control is disabled while a pass runs.
setSettings(s) ==
  /\ ~isProcessing
  /\ Cardinality({ field \in DOMAIN s : s[field] # settings[field] }) = 1
  /\ settings' = s
  /\ saved' = NoSave
  /\ UNCHANGED << files, selectedIds, isProcessing, nextId, revoked,
                  passFiles, passSettings, inflight, outcome, retried, userActs >>
  /\ UNCHANGED dimVars

\* --------------------------------------------------------- startProcessing
\* Mutant of ResetErrors: the errors are not reset.
ResetErrorsNone(fs) == fs

\* Mutant of ResetErrors: the COMPLETED files are put back to IDLE as well.
ResetErrorsAndCompleted(fs) ==
  [i \in DOMAIN fs |->
     IF fs[i].status \in {ERROR, COMPLETED}
       THEN [fs[i] EXCEPT !.status = IDLE]
       ELSE fs[i]]

\* newFiles.forEach(f => { if (f.status === ERROR) f.status = IDLE }): the
\* objects of newFiles are the objects of the list, changed in place.
ResetErrors(fs) ==
  [i \in DOMAIN fs |->
     IF fs[i].status = ERROR THEN [fs[i] EXCEPT !.status = IDLE] ELSE fs[i]]

\* Mutant of PassIndices: the early return for COMPLETED files is missing.
PassIndicesAll(newFiles) == DOMAIN newFiles

\* The elements of newFiles the map callback does not return early for.
PassIndices(newFiles) == { i \in DOMAIN newFiles : newFiles[i].status # COMPLETED }

\* current.map(f => f.id === id ? {...f, status: PROCESSING} : f)
MarkProcessing(current, id) ==
  [i \in DOMAIN current |->
     IF current[i].id = id THEN [current[i] EXCEPT !.status = PROCESSING]
     ELSE current[i]]

\* The PROCESSING updates of a pass, one per element the pass converts.
RECURSIVE MarkAllProcessing(_, _, _)
MarkAllProcessing(current, newFiles, i) ==
  IF i > Len(newFiles) THEN current
  ELSE MarkAllProcessing(
         IF i \in PassIndices(newFiles) THEN MarkProcessing(current, newFiles[i].id)
         ELSE current,
         newFiles, i + 1)

\* fileItem.originalFile.name.split('.').slice(0, -1).join('.')
OriginalBase(name) == Join(SliceButLast(Split(name, ".")), ".")

\* The number the renaming logic appends for the element at (0-based) index.
SequenceNumber(index) == index + 1

\* The renaming logic: the name a pass gives the element at (0-based) index.
BaseName(fileItem, index, s) ==
  LET trimmed == Trim(s.baseFilename)
      baseName == IF trimmed = <<>> THEN OriginalBase(fileItem.originalFile.name)
                  ELSE trimmed
  IN IF s.useSequentialNumbering
       THEN baseName \o <<"_">> \o NumberToString(SequenceNumber(index))
       ELSE baseName

\* The start button is disabled while no file is IDLE and shows its loading
\* state while a pass runs.
StartEnabled ==
  /\ ~isProcessing
  /\ \E i \in DOMAIN files : files[i].status = IDLE

\* startProcessing up to its first await: the flag, the copy of the list,
\* the reset of the errors and one PROCESSING update per converted file.
startProcessing ==
  /\ StartEnabled
  /\ isProcessing' = TRUE
  /\ passFiles' = ResetErrors(files)
  /\ passSettings' = settings
  /\ inflight' = PassIndices(ResetErrors(files))
  /\ files' = MarkAllProcessing(ResetErrors(files), ResetErrors(files), 1)
  /\ outcome' = {}
  /\ retried' = { files[k].id : k \in { j \in DOMAIN files : files[j].status = ERROR } }
  /\ userActs' = {}
  /\ saved' = NoSave
  /\ UNCHANGED << selectedIds, settings, nextId, revoked >>
  /\ UNCHANGED dimVars

\* Mutant of MarkCompleted: a result whose file is no longer listed is
\* appended to the list.
MarkCompletedUpsert(current, id, blob, baseName) ==
  IF id \in Ids(current)
    THEN [i \in DOMAIN current |->
            IF current[i].id = id
              THEN [current[i] EXCEPT !.status = COMPLETED,
                                      !.outputBlob = Some(blob),
                                      !.newName = Some(baseName)]
              ELSE current[i]]
    ELSE Append(current, [id |-> id, status |-> COMPLETED,
                          outputBlob |-> Some(blob), newName |-> Some(baseName)])

\* current.map(f => f.id === id ? {...f, status: COMPLETED, outputBlob, newName} : f)
MarkCompleted(current, id, blob, baseName) ==
  [i \in DOMAIN current |->
     IF current[i].id = id
       THEN [current[i] EXCEPT !.status = COMPLETED,
                               !.outputBlob = Some(blob),
                               !.newName = Some(baseName)]
       ELSE current[i]]

\* Mutant of MarkError: the failure also clears the file's earlier output.
MarkErrorClearOutput(current, id, message) ==
  [i \in DOMAIN current |->
     IF current[i].id = id
       THEN [current[i] EXCEPT !.status = ERROR, !.error = Some(message),
                               !.outputBlob = Undefined, !.newName = Undefined]
       ELSE current[i]]

\* current.map(f => f.id === id ? {...f, status: ERROR, error} : f)
MarkError(current, id, message) ==
  [i \in DOMAIN current |->
     IF current[i].id = id
       THEN [current[i] EXCEPT !.status = ERROR, !.error = Some(message)]
       ELSE current[i]]

\* Mutant of Settled: the update is computed from the list the pass started
\* from (the closure's array), not from the current list.
SettledFromSnapshot(current, newFiles, i, s, result) ==
  IF result = ConvertOk
    THEN MarkCompleted(newFiles, newFiles[i].id,
                       convertImage(newFiles[i].originalFile, s),
                       BaseName(newFiles[i], i - 1, s))
    ELSE MarkError(newFiles, newFiles[i].id, ErrorMessage(result))

\* What the map callback of newFiles[i] (index i - 1) does to the current
\* list when its conversion settles: a functional update of the list as it
\* is then, not of the list the pass started from.
Settled(current, newFiles, i, s, result) ==
  IF result = ConvertOk
    THEN MarkCompleted(current, newFiles[i].id,
                       convertImage(newFiles[i].originalFile, s),
                       BaseName(newFiles[i], i - 1, s))
    ELSE MarkError(current, newFiles[i].id, ErrorMessage(result))

\* Mutant of settle: the conversion of a file that has left the list never
\* settles.
settleListed(i, result) ==
  /\ i \in inflight
  /\ passFiles[i].id \in Ids(files)
  /\ files' = Settled(files, passFiles, i, passSettings, result)
  /\ inflight' = inflight \ {i}
  /\ isProcessing' = (inflight' # {})
  /\ passFiles' = IF inflight' = {} THEN <<>> ELSE passFiles
  /\ outcome' = outcome \cup {[id |-> passFiles[i].id, result |-> result,
                              present |-> TRUE]}
  /\ saved' = NoSave
  /\ passSettings' = IF inflight' = {} THEN InitialSettings ELSE passSettings
  /\ UNCHANGED << selectedIds, settings, nextId, revoked, retried, userActs >>
  /\ UNCHANGED dimVars

\* One conversion of the running pass settles; when it is the last one,
\* Promise.all resolves and the pass sets isProcessing back to false.
settle(i, result) ==
  /\ i \in inflight
  /\ files' = Settled(files, passFiles, i, passSettings, result)
  /\ inflight' = inflight \ {i}
  /\ isProcessing' = (inflight' # {})
  /\ passFiles' = IF inflight' = {} THEN <<>> ELSE passFiles
  /\ outcome' = outcome \cup {[id |-> passFiles[i].id, result |-> result,
                              present |-> passFiles[i].id \in Ids(files)]}
  /\ saved' = NoSave
  /\ passSettings' = IF inflight' = {} THEN InitialSettings ELSE passSettings
  /\ UNCHANGED << selectedIds, settings, nextId, revoked, retried, userActs >>
  /\ UNCHANGED dimVars

\* ------------------------------------------------------------------- reset
completedCount == Cardinality({ i \in DOMAIN files : files[i].status = COMPLETED })
hasFiles == Len(files) > 0
allCompleted == hasFiles /\ completedCount > 0 /\ completedCount = Len(files)

\* Mutant of ResetAll: the reset also drops the output blob, not the name.
ResetAllDropBlob(prev) ==
  [i \in DOMAIN prev |-> [prev[i] EXCEPT !.status = IDLE, !.outputBlob = Undefined]]

\* prev.map(f => ({...f, status: IDLE}))
ResetAll(prev) == [i \in DOMAIN prev |-> [prev[i] EXCEPT !.status = IDLE]]

\* The reset button, shown while allCompleted.
reset ==
  /\ allCompleted
  /\ files' = ResetAll(files)
  /\ userActs' = UserActed("reset")
  /\ saved' = NoSave
  /\ UNCHANGED << selectedIds, isProcessing, settings, nextId, revoked,
                  passFiles, passSettings, inflight, outcome, retried >>
  /\ UNCHANGED dimVars

\* --------------------------------------------------------------- downloads
\* `${file.newName}.${ext}`; an undefined newName formats as "undefined".
TemplateName(newName) ==
  IF IsDefined(newName) THEN ValueOf(newName)
  ELSE <<"u", "n", "d", "e", "f", "i", "n", "e", "d">>

DownloadName(file, s) == TemplateName(file.newName) \o <<".">> \o getExtensionFromMime(s.format)

\* targetFiles.filter(f => f.status === COMPLETED && f.outputBlob)
RECURSIVE ReadyFiles(_)
ReadyFiles(targetFiles) ==
  IF targetFiles = <<>> THEN <<>>
  ELSE IF Head(targetFiles).status = COMPLETED /\ IsDefined(Head(targetFiles).outputBlob)
    THEN <<Head(targetFiles)>> \o ReadyFiles(Tail(targetFiles))
  ELSE ReadyFiles(Tail(targetFiles))

\* JSZip's zip.file(name, data): adds the entry, replacing an entry of the
\* same name.
ZipFile(zip, fileName, blob) ==
  { e \in zip : e.fileName # fileName } \cup {[fileName |-> fileName, blob |-> blob]}

\* The forEach of the zip branch, from the i-th ready file on.
RECURSIVE ZipAll(_, _, _, _)
ZipAll(zip, readyFiles, i, s) ==
  IF i > Len(readyFiles) THEN zip
  ELSE ZipAll(ZipFile(zip, DownloadName(readyFiles[i], s),
                      ValueOf(readyFiles[i].outputBlob)),
              readyFiles, i + 1, s)

\* The for loop of the raw branch: one saveAs per ready file, in order.  The
\* saves are 300 ms apart, but what each saves is fixed by the readyFiles and
\* the settings object the handler closed over when it was called.
RawSaves(readyFiles, s) ==
  [i \in DOMAIN readyFiles |->
     [fileName |-> DownloadName(readyFiles[i], s),
      blob |-> ValueOf(readyFiles[i].outputBlob)]]

DownloadModes == {"zip", "raw"}

\* handleDownloadFiles: what it saves for targetFiles under mode.
DownloadFiles(targetFiles, mode, s) ==
  LET readyFiles == ReadyFiles(targetFiles) IN
  IF Len(readyFiles) = 0 THEN [NoSave EXCEPT !.targets = Ids(targetFiles)]
  ELSE IF mode = "zip"
    THEN [targets |-> Ids(targetFiles), files |-> <<>>,
          zips |-> <<ZipAll({}, readyFiles, 1, s)>>]
    ELSE [targets |-> Ids(targetFiles), files |-> RawSaves(readyFiles, s),
          zips |-> <<>>]

\* onDownloadSelected; its buttons are shown while allCompleted and
\* something is selected.
onDownloadSelected(mode) ==
  /\ allCompleted
  /\ Cardinality(selectedIds) > 0
  /\ saved' = DownloadFiles(Filter(files, selectedIds), mode, settings)
  /\ UNCHANGED << files, selectedIds, isProcessing, settings, nextId, revoked,
                  passFiles, passSettings, inflight, outcome, retried, userActs >>
  /\ UNCHANGED dimVars

\* onDownloadAll; its buttons are shown while allCompleted.
onDownloadAll(mode) ==
  /\ allCompleted
  /\ saved' = DownloadFiles(files, mode, settings)
  /\ UNCHANGED << files, selectedIds, isProcessing, settings, nextId, revoked,
                  passFiles, passSettings, inflight, outcome, retried, userActs >>
  /\ UNCHANGED dimVars

\* handleDownloadSingle, called by a list item with its file.
handleDownloadSingle(i) ==
  /\ i \in DOMAIN files
  /\ IsDefined(files[i].outputBlob)
  /\ saved' = [targets |-> {files[i].id},
               files |-> <<[fileName |-> DownloadName(files[i], settings),
                            blob |-> ValueOf(files[i].outputBlob)]>>,
               zips |-> <<>>]
  /\ UNCHANGED << files, selectedIds, isProcessing, settings, nextId, revoked,
                  passFiles, passSettings, inflight, outcome, retried, userActs >>
  /\ UNCHANGED dimVars

\* ----------------------------------------------------------- specification
\* The handlers that change the file list, with the inputs drawn from the
\* given sets: file names, settings values, conversion outcomes.
ListNext(names, settingsSpace, outcomes) ==
  \/ \E batch \in Batches(names) : handleFilesSelected(batch)
  \/ \E id \in Ids(files) : handleRemoveFile(id)
  \/ handleClearAll
  \/ \E s \in settingsSpace : setSettings(s)
  \/ startProcessing
  \/ \E i \in inflight, result \in outcomes : settle(i, result)
  \/ reset

\* The same without a settings control being used.
FixedSettingsNext(names, outcomes) ==
  \/ \E batch \in Batches(names) : handleFilesSelected(batch)
  \/ \E id \in Ids(files) : handleRemoveFile(id)
  \/ handleClearAll
  \/ startProcessing
  \/ \E i \in inflight, result \in outcomes : settle(i, result)
  \/ reset

\* The handlers that leave the file list alone: selection and downloads.
ExportNext ==
  \/ \E id \in Ids(files) : handleToggleSelect(id)
  \/ handleSelectAll
  \/ \E mode \in DownloadModes : onDownloadSelected(mode)
  \/ \E mode \in DownloadModes : onDownloadAll(mode)
  \/ \E i \in DOMAIN files : handleDownloadSingle(i)

PngName == <<"a", ".", "p", "n", "g">>

\* The life of the file list: files of one name, the numbering switch as
\* the setting that changes between passes, conversions that succeed, fail
\* with an Error or fail without one.  Selection and downloads, which do
\* not write the list, are left to SpecExport.
Next ==
  ListNext({PngName},
           [format : {JPEG}, baseFilename : {<<>>}, useSequentialNumbering : BOOLEAN],
           {ConvertOk, LoadFailed, ReadFailed})

Spec == Init /\ [][Next]_vars

\* The same with every way a conversion can settle, under the initial settings.
NextErrors == FixedSettingsNext({PngName}, ConvertOutcomes)

SpecErrors == Init /\ [][NextErrors]_vars

\* The renaming logic over every kind of file name and base filename text.
NextNaming ==
  ListNext(FileNames,
           [format : {JPEG}, baseFilename : BaseFilenames, useSequentialNumbering : BOOLEAN],
           {ConvertOk})

SpecNaming == Init /\ [][NextNaming]_vars

\* Conversion followed by selection and downloads, over every output format.
NextExport ==
  \/ ListNext({PngName},
              [format : OutputFormat, baseFilename : {<<>>}, useSequentialNumbering : {FALSE}],
              {ConvertOk, LoadFailed})
  \/ ExportNext

SpecExport == Init /\ [][NextExport]_vars

\* ------------------------------------------------------- claims: vocabulary
\* The list entry with the given id.
Entry(fs, id) == fs[CHOOSE k \in DOMAIN fs : fs[k].id = id]

\* The indices of newFiles whose conversion settles in this step, and how.
SettlingNow == inflight \ inflight'
ResultNow(id) == (CHOOSE o \in outcome' \ outcome : o.id = id).result

\* The steps of startProcessing: its start, and the settling of a conversion.
PassStarts == ~isProcessing /\ isProcessing'
PassEnds == isProcessing /\ ~isProcessing'

\* ---------------------------------------------------------------------- C1
BlobIffName(fs) ==
  \A k \in DOMAIN fs : IsDefined(fs[k].outputBlob) <=> IsDefined(fs[k].newName)

\* C1: every file has an output blob exactly when it has an output name;
\* a step changes a file's blob or name only if it is the settling of that
\* file's conversion and sets the file to COMPLETED with both fields
\* written; a file entering the list has neither.
C1_OutputWrittenOnlyOnCompletion ==
  [][ /\ BlobIffName(files)
      /\ BlobIffName(files')
      /\ \A id \in Ids(files') \ Ids(files) :
           /\ ~IsDefined(Entry(files', id).outputBlob)
           /\ ~IsDefined(Entry(files', id).newName)
      /\ \A id \in Ids(files') \cap Ids(files) :
           (\/ Entry(files', id).outputBlob # Entry(files, id).outputBlob
            \/ Entry(files', id).newName # Entry(files, id).newName)
           => /\ \E i \in SettlingNow : passFiles[i].id = id
              /\ Entry(files', id).status = COMPLETED
              /\ IsDefined(Entry(files', id).outputBlob)
              /\ IsDefined(Entry(files', id).newName) ]_vars

\* A completed file carries both fields beside a failed file carrying neither.
C1_Witness ==
  /\ \E k \in DOMAIN files :
       /\ files[k].status = COMPLETED
       /\ IsDefined(files[k].outputBlob) /\ IsDefined(files[k].newName)
  /\ \E k \in DOMAIN files :
       /\ files[k].status = ERROR
       /\ ~IsDefined(files[k].outputBlob) /\ ~IsDefined(files[k].newName)

\* ---------------------------------------------------------------------- C2
\* A file name without its extension: the name up to its last dot, the
\* whole name when it has no dot.
Dots(name) == { k \in DOMAIN name : name[k] = "." }
LastDot(name) == CHOOSE k \in Dots(name) : \A j \in Dots(name) : j <= k
WithoutExtension(name) ==
  IF Dots(name) = {} THEN name ELSE SubSeq(name, 1, LastDot(name) - 1)

\* The output name the claim describes for the file at the given 1-based
\* position of the list the pass started from.
ClaimedOutputName(name, s, position) ==
  LET base == IF Trim(s.baseFilename) # <<>> THEN Trim(s.baseFilename)
              ELSE WithoutExtension(name)
  IN IF s.useSequentialNumbering
       THEN base \o <<"_">> \o NumberToString(position)
       ELSE base

\* C2: the name recorded when a conversion succeeds is the base name (the
\* trimmed base filename, or the original name without its extension when
\* that is empty) followed, under sequential numbering, by "_" and the
\* file's 1-based position in the list the pass started from.
C2_OutputNameIsBasePlusPosition ==
  [][ \A i \in SettlingNow :
        (ResultNow(passFiles[i].id) = ConvertOk /\ passFiles[i].id \in Ids(files))
        => Entry(files', passFiles[i].id).newName
             = Some(ClaimedOutputName(passFiles[i].originalFile.name, passSettings, i)) ]_vars

ErrorFilesRestarted ==
  PassStarts =>
    \A k \in DOMAIN files :
      files[k].status = ERROR =>
        /\ passFiles'[k].status = IDLE
        /\ k \in inflight'
        /\ files'[k].status = PROCESSING

\* C4 as stated: every file in status ERROR when a pass starts is reset to
\* IDLE and re-attempted (marked PROCESSING), and when the pass ends it is,
\* if still in the list, COMPLETED or ERROR.
C4_ErrorFilesEndPassSettled ==
  [][ /\ ErrorFilesRestarted
      /\ PassEnds =>
           \A id \in retried \cap Ids(files') :
             Entry(files', id).status \in {COMPLETED, ERROR} ]_vars

\* C4 amended: every file in status ERROR when a pass starts is reset to
\* IDLE and re-attempted (marked PROCESSING); the settling of its
\* conversion sets it, if still in the list, to COMPLETED or ERROR; and
\* when the pass ends it is, if still in the list, COMPLETED or ERROR
\* unless the reset button was used during the pass.
C4_ErrorFilesRetried ==
  [][ /\ ErrorFilesRestarted
      /\ \A i \in SettlingNow :
           (passFiles[i].id \in retried /\ passFiles[i].id \in Ids(files))
           => Entry(files', passFiles[i].id).status \in {COMPLETED, ERROR}
      /\ (PassEnds /\ "reset" \notin userActs) =>
           \A id \in retried \cap Ids(files') :
             Entry(files', id).status \in {COMPLETED, ERROR} ]_vars

\* A pass has ended in which a file that was in status ERROR at its start
\* was converted again, this time successfully.
C4_Witness ==
  /\ ~isProcessing
  /\ \E id \in retried \cap Ids(files) :
       /\ Entry(files, id).status = COMPLETED
       /\ \E o \in outcome : o.id = id /\ o.result = ConvertOk

\* ---------------------------------------------------------------------- C6
\* C6: when a conversion is rejected, its file (if listed) gets status
\* ERROR and the message, and keeps its output blob and name as they were;
\* no other file changes; the other conversions of the pass stay under
\* way, the pass ending only with the last of them; and a conversion that
\* succeeds sets its file to COMPLETED whatever failed before it.
C6_FailureRecordedPassContinues ==
  [][ \A i \in SettlingNow :
        LET id == passFiles[i].id
            result == ResultNow(id)
        IN /\ inflight' = inflight \ {i}
           /\ isProcessing' = (inflight' # {})
           /\ Len(files') = Len(files)
           /\ \A k \in DOMAIN files :
                IF files[k].id # id THEN files'[k] = files[k]
                ELSE IF result \in ConvertRejections
                  THEN files'[k] = [files[k] EXCEPT !.status = ERROR,
                                                    !.error = Some(ErrorMessage(result))]
                  ELSE files'[k].status = COMPLETED ]_vars

\* A conversion has failed, its file shows ERROR with a message and no
\* output, and the pass is still under way with other conversions.
C6_Witness ==
  /\ isProcessing
  /\ inflight # {}
  /\ \E o \in outcome :
       /\ o.result \in ConvertRejections
       /\ o.id \in Ids(files)
       /\ Entry(files, o.id).status = ERROR
       /\ IsDefined(Entry(files, o.id).error)
       /\ ~IsDefined(Entry(files, o.id).outputBlob)
       /\ ~IsDefined(Entry(files, o.id).newName)

\* ---------------------------------------------------------------------- C7
\* C7: the start of a pass and every settling keep the list's length and
\* the order of its ids; the start changes nothing but the status of the
\* files it begins to convert; a settling changes no entry but the one
\* with the settled file's id, whose id, file and preview URL it keeps,
\* and changes nothing when that id is no longer listed.
C7_UpdatesTouchOnlyTheirEntry ==
  [][ (PassStarts \/ SettlingNow # {}) =>
        /\ Len(files') = Len(files)
        /\ \A k \in DOMAIN files :
             /\ files'[k].id = files[k].id
             /\ files'[k].originalFile = files[k].originalFile
             /\ files'[k].previewUrl = files[k].previewUrl
             /\ PassStarts =>
                  IF k \in inflight'
                    THEN files'[k] = [files[k] EXCEPT !.status = PROCESSING]
                    ELSE files'[k] = files[k]
             /\ \A i \in SettlingNow :
                  files[k].id # passFiles[i].id => files'[k] = files[k] ]_vars

\* A conversion settled after its file had been removed, and the list,
\* which still holds other files, does not hold the removed one.
C7_Witness ==
  /\ files # <<>>
  /\ \E o \in outcome : ~o.present /\ o.id \notin Ids(files)

\* ---------------------------------------------------------------------- C8
\* The result recorded for a file of the pass.
ResultOf(out, id) == (CHOOSE o \in out : o.id = id).result

\* The list a pass over newFiles under settings s must end with, given the
\* result of each conversion: a function of these alone.
ExpectedFinal(newFiles, s, out) ==
  [k \in DOMAIN newFiles |->
     IF newFiles[k].status = COMPLETED THEN newFiles[k]
     ELSE IF ResultOf(out, newFiles[k].id) = ConvertOk
       THEN [newFiles[k] EXCEPT
               !.status = COMPLETED,
               !.outputBlob = Some([type |-> s.format,
                                    data |-> newFiles[k].originalFile.data]),
               !.newName = Some(BaseName(newFiles[k], k - 1, s))]
       ELSE [newFiles[k] EXCEPT
               !.status = ERROR,
               !.error = Some(ErrorMessage(ResultOf(out, newFiles[k].id)))]]

\* C8: when a pass ends during which the user did nothing to the list, the
\* list is the one determined by the list the pass started from, its
\* settings and the result of each conversion, in whatever order the
\* conversions settled.
C8_FinalListIndependentOfOrder ==
  [][ (PassEnds /\ userActs = {}) =>
        files' = ExpectedFinal(passFiles, passSettings, outcome') ]_vars

\* A pass of two conversions, one that succeeded and one that failed, has
\* ended without the user touching the list.
C8_Witness ==
  /\ ~isProcessing
  /\ userActs = {}
  /\ \E o1, o2 \in outcome :
       /\ o1.id # o2.id
       /\ o1.result = ConvertOk
       /\ o2.result # ConvertOk
       /\ {o1.id, o2.id} \subseteq Ids(files)

\* ---------------------------------------------------------------------- C9
\* The preview URLs created so far (one per file taken in).
CreatedUrls == 1..(nextId - 1)

\* C9: no listed file has a released preview URL, and the preview URL of
\* every file that has left the list has been released.
C9_PreviewReleasedExactlyOnLeaving ==
  /\ \A k \in DOMAIN files : files[k].previewUrl \notin revoked
  /\ \A url \in CreatedUrls :
       url \notin { files[k].previewUrl : k \in DOMAIN files } => url \in revoked

\* One file has left the list and had its URL released while another
\* stays listed.
C9_Witness ==
  /\ revoked # {}
  /\ files # <<>>
  /\ \E k \in DOMAIN files : files[k].status = COMPLETED

\* ---------------------------------------------------------------------- C5
\* Everything the latest step saved under a name: the files saved one by
\* one and the entries of the archives.
SavedItems == Range(saved.files) \cup UNION Range(saved.zips)

\* The extension the claim gives a blob: that of the format it is encoded in.
ExtensionOfBlob(blob) ==
  CASE blob.type = JPEG -> <<"j", "p", "g">>
    [] blob.type = PNG -> <<"p", "n", "g">>
    [] blob.type = WEBP -> <<"w", "e", "b", "p">>

\* C5: every file a download saves is the output blob of a listed file
\* under the name "<output name>.<ext>", ext being the extension of the
\* format the blob is encoded in.
C5_SavedNameMatchesBlobFormat ==
  \A item \in SavedItems :
    \E k \in DOMAIN files :
      /\ files[k].outputBlob = Some(item.blob)
      /\ IsDefined(files[k].newName)
      /\ item.fileName
           = ValueOf(files[k].newName) \o <<".">> \o ExtensionOfBlob(item.blob)

\* --------------------------------------------------------------------- C10
\* The target files of the latest download that were ready.
ReadyTargets ==
  { id \in saved.targets \cap Ids(files) :
      /\ Entry(files, id).status = COMPLETED
      /\ IsDefined(Entry(files, id).outputBlob) }

\* C10: a zip export saves exactly one archive, with one entry for each
\* ready target file and no other entry, and none when no target is ready.
C10_ZipHoldsOneEntryPerReadyTarget ==
  /\ (saved.zips # <<>>) =>
       /\ Len(saved.zips) = 1
       /\ ReadyTargets # {}
       /\ Cardinality(saved.zips[1]) = Cardinality(ReadyTargets)
       /\ \A e \in saved.zips[1] :
            \E id \in ReadyTargets : Entry(files, id).outputBlob = Some(e.blob)
  /\ (saved.targets # {} /\ ReadyTargets = {}) => saved.zips = <<>>

\* ------------------------------------------------------- resize computation
\* Largest width and height of a decoded source image.
MaxImage == 4
\* Largest number typed into the width and height fields.
MaxRequest == 3

\* The numbers of the computation are fractions num/den with den > 0, so
\* that the products, quotients and Math.round of the code are computed
\* exactly; they are kept in lowest terms.
RECURSIVE GCD(_, _)
GCD(a, b) == IF b = 0 THEN a ELSE GCD(b, a % b)

Rat(n, d) == [num |-> n \div GCD(n, d), den |-> d \div GCD(n, d)]
Times(a, b) == Rat(a.num * b.num, a.den * b.den)
\* a / b, for b > 0
Over(a, b) == Rat(a.num * b.den, a.den * b.num)
LessOrEqual(a, b) == a.num * b.den <= b.num * a.den

\* The larger of the two where Math.min gives the smaller.
MathMinLarger(a, b) == IF LessOrEqual(a, b) THEN b ELSE a

\* Math.min
MathMin(a, b) == IF LessOrEqual(a, b) THEN a ELSE b
\* Math.round: the nearest integer, a half rounded up.
MathRound(a) == (2 * a.num + a.den) \div (2 * a.den)
\* No lower limit where Math.max(1, n) sets one.
AtLeastOneUnclamped(n) == n

\* Math.max(1, n)
AtLeastOne(n) == IF n < 1 THEN 1 ELSE n

\* const CM_TO_PX = 37.795
CM_TO_PX == Rat(37795, 1000)

\* The decoded images: img.width and img.height of a picture that loaded.
Images == [width : 1..MaxImage, height : 1..MaxImage]

\* The scale slider: 0.1 to 1 in steps of 0.1.
ScaleValues == { Rat(k, 10) : k \in 1..10 }
\* The width and height fields: empty, or the number parseFloat read, here
\* zero and the positive halves up to MaxRequest.
TypedValues == {Undefined} \cup { Some(Rat(k, 2)) : k \in 0..(2 * MaxRequest) }
ResizeModes == {"scale", "px", "cm"}
ResizeSettings ==
  [resizeMode : ResizeModes, scale : ScaleValues, width : TypedValues,
   height : TypedValues, maintainAspectRatio : BOOLEAN]

\* reqW, reqH: null for an empty field, else the number, in centimetre mode
\* times CM_TO_PX.
Requested(typed, mode) ==
  IF ~IsDefined(typed) THEN Undefined
  ELSE IF mode = "cm" THEN Some(Times(ValueOf(typed), CM_TO_PX))
  ELSE typed

\* targetWidth and targetHeight before the clamp, in pixel and centimetre
\* mode with the aspect ratio kept.
AspectSize(image, reqW, reqH) ==
  LET w == Rat(image.width, 1)
      h == Rat(image.height, 1)
  IN  IF IsDefined(reqW) /\ IsDefined(reqH)
        THEN LET scaleW == Over(ValueOf(reqW), w)
                 scaleH == Over(ValueOf(reqH), h)
                 scale == MathMin(scaleW, scaleH)
             IN  [width |-> MathRound(Times(w, scale)),
                  height |-> MathRound(Times(h, scale))]
      ELSE IF IsDefined(reqW)
        THEN [width |-> MathRound(ValueOf(reqW)),
              height |-> MathRound(Times(h, Over(ValueOf(reqW), w)))]
      ELSE IF IsDefined(reqH)
        THEN [width |-> MathRound(Times(w, Over(ValueOf(reqH), h))),
              height |-> MathRound(ValueOf(reqH))]
      ELSE [width |-> image.width, height |-> image.height]

\* targetWidth and targetHeight before the clamp.
RawSize(image, s) ==
  IF s.resizeMode = "scale"
    THEN [width |-> MathRound(Times(Rat(image.width, 1), s.scale)),
          height |-> MathRound(Times(Rat(image.height, 1), s.scale))]
  ELSE LET reqW == Requested(s.width, s.resizeMode)
           reqH == Requested(s.height, s.resizeMode)
       IN  IF s.maintainAspectRatio THEN AspectSize(image, reqW, reqH)
           ELSE [width |-> IF IsDefined(reqW) THEN MathRound(ValueOf(reqW))
                           ELSE image.width,
                 height |-> IF IsDefined(reqH) THEN MathRound(ValueOf(reqH))
                            ELSE image.height]

\* The size convertImage gives the canvas.
TargetSize(image, s) ==
  [width |-> AtLeastOne(RawSize(image, s).width),
   height |-> AtLeastOne(RawSize(image, s).height)]

\* One convertImage call: an image of some size has been handed over with
\* some settings, and its canvas is not made yet.
InitConvert ==
  /\ files = <<>>
  /\ selectedIds = {}
  /\ isProcessing = FALSE
  /\ settings = InitialSettings
  /\ nextId = 1
  /\ revoked = {}
  /\ passFiles = <<>>
  /\ passSettings = InitialSettings
  /\ inflight = {}
  /\ outcome = {}
  /\ retried = {}
  /\ userActs = {}
  /\ saved = NoSave
  /\ img \in { Some(i) : i \in Images }
  /\ resize \in { Some(s) : s \in ResizeSettings }
  /\ canvas = Undefined

\* img.onload: size the canvas.
onload ==
  /\ IsDefined(img)
  /\ canvas = Undefined
  /\ canvas' = Some(TargetSize(ValueOf(img), ValueOf(resize)))
  /\ UNCHANGED << files, selectedIds, isProcessing, settings, nextId, revoked,
                  passFiles, passSettings, inflight, outcome, retried,
                  userActs, saved, img, resize >>

NextConvert == onload

SpecConvert == InitConvert /\ [][NextConvert]_vars

\* ------------------------------------------------------------- claims C11-C12
\* C11: whatever the size of the source image and whatever the settings
\* (any resize mode, any scale factor, width and height each empty, zero or
\* positive, aspect ratio kept or not), the width and the height convertImage
\* gives the canvas are both at least 1.
C11_CanvasAtLeastOnePixel ==
  IsDefined(canvas) =>
    /\ ValueOf(canvas).width >= 1
    /\ ValueOf(canvas).height >= 1

\* A canvas made for a requested width of zero, which the code rounds to
\* zero and then raises to one.
C11_Witness ==
  /\ IsDefined(canvas)
  /\ ValueOf(resize).resizeMode = "px"
  /\ ~ValueOf(resize).maintainAspectRatio
  /\ ValueOf(resize).width = Some(Rat(0, 2))
  /\ ValueOf(img).width > 1
  /\ ValueOf(canvas).width = 1

\* r is n/d rounded to the nearest integer, a half rounded up, and not
\* less than 1.
IsRoundedAtLeastOne(r, n, d) ==
  \/ r = 1 /\ 2 * n < d
  \/ r >= 1 /\ (2 * r - 1) * d <= 2 * n /\ 2 * n < (2 * r + 1) * d

\* The canvas was made in pixel mode with the aspect ratio kept and both
\* fields holding a positive whole number.
FitsRequestedBox ==
  /\ IsDefined(canvas)
  /\ ValueOf(resize).resizeMode = "px"
  /\ ValueOf(resize).maintainAspectRatio
  /\ IsDefined(ValueOf(resize).width)
  /\ IsDefined(ValueOf(resize).height)
  /\ \A typed \in {ValueOf(resize).width, ValueOf(resize).height} :
       /\ ValueOf(typed).num > 0
       /\ ValueOf(typed).num % ValueOf(typed).den = 0

\* C12: in pixel mode with the aspect ratio kept and both W and H given as
\* positive integers, the image is scaled by the smaller of W / source width
\* and H / source height and each dimension rounded; the target width is at
\* most W, the target height at most H, and one of the two equals what was
\* requested.
C12_AspectFitWithinRequest ==
  FitsRequestedBox =>
    LET W == ValueOf(ValueOf(resize).width).num \div
               ValueOf(ValueOf(resize).width).den
        H == ValueOf(ValueOf(resize).height).num \div
               ValueOf(ValueOf(resize).height).den
        sw == ValueOf(img).width
        sh == ValueOf(img).height
        target == ValueOf(canvas)
    IN  /\ target.width <= W
        /\ target.height <= H
        /\ target.width = W \/ target.height = H
        /\ IF W * sh <= H * sw
             THEN /\ IsRoundedAtLeastOne(target.width, sw * W, sw)
                  /\ IsRoundedAtLeastOne(target.height, sh * W, sw)
             ELSE /\ IsRoundedAtLeastOne(target.width, sw * H, sh)
                  /\ IsRoundedAtLeastOne(target.height, sh * H, sh)

\* A fit limited by the width, whose height is rounded and stays under H.
C12_Witness ==
  /\ FitsRequestedBox
  /\ ValueOf(canvas).width * ValueOf(ValueOf(resize).width).den
       = ValueOf(ValueOf(resize).width).num
  /\ ValueOf(canvas).height * ValueOf(ValueOf(resize).height).den
       < ValueOf(ValueOf(resize).height).num
  /\ (ValueOf(img).height * ValueOf(canvas).width) % ValueOf(img).width # 0

\* ----------------------------------------------------------------- claim C13
\* C13: whenever no pass is running and at least one file in the list has
\* status ERROR, the start-conversion action is enabled, so that an errored
\* file can be retried without first adding or removing files.
C13_ErrorFilesCanBeRetried ==
  (~isProcessing /\ \E i \in DOMAIN files : files[i].status = ERROR)
    => StartEnabled

\* ----------------------------------------------------------------- claim C14
\* The state after the user has ticked sequential numbering, before any
\* file is taken in.
InitNumbered ==
  /\ files = <<>>
  /\ selectedIds = {}
  /\ isProcessing = FALSE
  /\ settings = [InitialSettings EXCEPT !.useSequentialNumbering = TRUE]
  /\ nextId = 1
  /\ revoked = {}
  /\ passFiles = <<>>
  /\ passSettings = InitialSettings
  /\ inflight = {}
  /\ outcome = {}
  /\ retried = {}
  /\ userActs = {}
  /\ saved = NoSave
  /\ img = Undefined
  /\ resize = Undefined
  /\ canvas = Undefined

\* Intake, remove, startProcessing and reset with numbering left on and the
\* base filename left as it is.
NextNumbered == FixedSettingsNext({PngName}, {ConvertOk, LoadFailed})

SpecNumbered == InitNumbered /\ [][NextNumbered]_vars

\* C14: with sequential numbering on and the base filename unchanged, after
\* any sequence of intake, remove, startProcessing and reset, no two
\* COMPLETED files of the list have the same output name.
C14_NumberedNamesDistinct ==
  \A i, j \in DOMAIN files :
    (i # j /\ files[i].status = COMPLETED /\ files[j].status = COMPLETED)
      => files[i].newName # files[j].newName

\* ----------------------------------------------------------------- claim C15
\* The file carries an output blob or an output name.
CarriesOutput(f) == IsDefined(f.outputBlob) \/ IsDefined(f.newName)

\* C15 as claimed: in every reachable state a file that carries an output
\* blob or an output name has status COMPLETED; files in IDLE, PROCESSING or
\* ERROR carry neither.
C15_OutputOnlyOnCompleted ==
  \A i \in DOMAIN files : CarriesOutput(files[i]) => files[i].status = COMPLETED

\* C15: a file that is not COMPLETED carries no output other than the blob
\* and name it carried in the state before, and a COMPLETED file leaves that
\* status only by the reset button, which puts every file of the list to
\* IDLE and keeps blob and name.
C15_OutputStaysAfterCompletion ==
  [][ \A id \in Ids(files') :
        LET after == Entry(files', id)
        IN  (after.status # COMPLETED /\ CarriesOutput(after)) =>
              /\ id \in Ids(files)
              /\ Entry(files, id).outputBlob = after.outputBlob
              /\ Entry(files, id).newName = after.newName
              /\ Entry(files, id).status = COMPLETED =>
                   /\ \A k \in DOMAIN files : files[k].status = COMPLETED
                   /\ \A k \in DOMAIN files' : files'[k].status = IDLE
    ]_vars

\* A file that was converted, reset and converted again without success:
\* in status ERROR with the blob and the name of the first conversion.
C15_Witness ==
  \E i \in DOMAIN files :
    /\ files[i].status = ERROR
    /\ IsDefined(files[i].outputBlob)
    /\ IsDefined(files[i].newName)
    /\ IsDefined(files[i].error)

\* ----------------------------------------------------------------- claim C16
\* The conversions convertImage can settle with here: a blob, or a failure
\* to load the picture.
LiveOutcomes == {ConvertOk, LoadFailed}

NextLive == FixedSettingsNext({PngName}, LiveOutcomes)

\* Some conversion of the running pass settles.
SomeSettles == \E i \in inflight, result \in LiveOutcomes : settle(i, result)

\* The handlers as before, and every conversion in flight settles in the
\* end: while one is in flight, one of them settles.
SpecLive == Init /\ [][NextLive]_vars /\ WF_vars(SomeSettles)

\* C16: provided every conversion settles in the end, every started pass
\* ends with isProcessing false, and in the state the pass ends in no file of
\* the list has status PROCESSING, whatever was removed during the pass.
C16_PassEndsWithNothingProcessing ==
  /\ isProcessing ~> ~isProcessing
  /\ [][ PassEnds => \A k \in DOMAIN files' : files'[k].status # PROCESSING ]_vars

\* A pass has ended after a file was removed while it ran, with a file still
\* in the list.
C16_Witness ==
  /\ ~isProcessing
  /\ "remove" \in userActs
  /\ outcome # {}
  /\ \E o \in outcome : ~o.present
  /\ files # <<>>
====
